---- MODULE Spec2Model ----
(***************************************************************************)
(* Warm-transfer orchestration core: WarmTransferService                   *)
(* (backend/app/services/transfer_service.py) together with the parts of   *)
(* LiveKitService, the database rows and the asyncio timer task it drives. *)
(*                                                                         *)
(* The service runs on one asyncio event loop: a coroutine runs without    *)
(* interruption from one suspending await to the next.  Every action below *)
(* is one such uninterrupted stretch of one coroutine; the handler's pc    *)
(* names the await it is suspended at.                                     *)
(***************************************************************************)
EXTENDS Integers, FiniteSets, Sequences, TLC

\* ---------------------------------------------------------------- bounds
MaxTransfers == 2      \* transfer ids (uuid4 values) handed out
MaxOps == 4            \* requests started in one behaviour
MaxFaults == 1         \* upstream failures (gateway, storage, bus) injected

\* ------------------------------------------------------- program constants
Ids == 1..MaxTransfers
Handlers == {"h1", "h2"}

KnownCalls == {"c1", "c2"}
KnownAgents == {"opA", "opB", "opC", "opD"}

\* requests offered to initiate_warm_transfer: <<call_id, source, target>>
InitiateRequests ==
    { <<"c1", "opA", "opB">>, <<"c2", "opC", "opB">>,
      <<"c1", "opA", "opD">>, <<"cX", "opA", "opB">> }

\* operator ids offered to join_transfer_room
JoinAgents == {"opA", "opB", "opC"}

\* Agent.max_concurrent_calls, Agent.is_available, Agent.status (Directory rows)
max_concurrent_calls == [a \in KnownAgents |-> IF a = "opB" THEN 1 ELSE 2]
is_available == [a \in KnownAgents |-> a # "opD"]
agent_status == [a \in KnownAgents |-> IF a = "opD" THEN "offline" ELSE "online"]
InitCurrentCalls == [a \in KnownAgents |-> IF a \in {"opA", "opC"} THEN 1 ELSE 0]

\* the operator each call belongs to before any transfer
InitCallOwner == [c \in KnownCalls |-> IF c = "c1" THEN "opA" ELSE "opC"]

\* the operator attached to each call's original room before any transfer
InitOrigParticipants == [c \in KnownCalls |-> IF c = "c1" THEN {"opA"} ELSE {"opC"}]

TerminalStatus == {"completed", "failed", "cancelled"}

\* ------------------------------------------------------------------ state
VARIABLES
    nextId,            \* next uuid4 to be drawn by initiate_warm_transfer
    opsStarted,        \* requests started so far
    faults,            \* upstream failures injected so far
    transfers,         \* the transfer dict objects (alive while referenced)
    active,            \* keys of WarmTransferService.active_transfers
    timeouts,          \* keys of WarmTransferService.transfer_timeouts
    timer,             \* state of each asyncio timeout task
    db,                \* Transfer rows of the durable store
    current_calls,     \* Agent.current_calls of the Directory
    lk_rooms,          \* briefing rooms existing in the Room Gateway
    lk_active_rooms,   \* keys of LiveKitService.active_rooms (briefing rooms)
    lk_status,         \* LiveKitService.active_transfers[t]["status"]
    orig_participants, \* operators attached to each original room
    orig_tokens,       \* credentials generated for each original room
    deleteCalls,       \* delete_room calls made for each briefing room
    contextSent,       \* ai_context data messages delivered to each briefing room
    agentUpdates,      \* _update_agent_post_transfer runs made for each transfer
    agent_available,   \* Agent.is_available as the staged endpoints rewrite it
    call_owner,        \* agent_id that finalize_transfer assigned to each Call
    staged,            \* the last request served by a staged endpoint
    active_connections, \* keys of ConnectionManager.active_connections
    room_connections,  \* ConnectionManager.room_connections: room -> clients
    agent_connections, \* ConnectionManager.agent_connections, insertion order
    call_connections,  \* ConnectionManager.call_connections: call -> clients
    conn_last,         \* the last ConnectionManager method that returned
    handlers           \* the request coroutines

vars == <<nextId, opsStarted, faults, transfers, active, timeouts, timer, db,
          current_calls, lk_rooms, lk_active_rooms, lk_status,
          orig_participants, orig_tokens, deleteCalls, contextSent,
          agentUpdates, agent_available, call_owner, staged,
          active_connections, room_connections, agent_connections,
          call_connections, conn_last, handlers>>

svcVars == <<transfers, active, timeouts, timer>>
lkVars == <<lk_rooms, lk_active_rooms, lk_status, orig_participants,
            orig_tokens, deleteCalls>>
countVars == <<contextSent, agentUpdates>>
stagedVars == <<agent_available, call_owner, staged>>
connVars == <<active_connections, room_connections, agent_connections,
              call_connections, conn_last>>

NoTransfer ==
    [call_id |-> "-", source_agent_id |-> "-", target_agent_id |-> "-",
     status |-> "none", phase |-> "none", participants |-> {},
     ai_summary |-> "none", completed_at |-> FALSE, cancelled_at |-> FALSE]

NoRequest == <<"-", "-", "-">>

NoRow ==
    [status |-> "none", completed_at |-> FALSE, was_successful |-> "null",
     call_id |-> "-", source_agent_id |-> "-", target_agent_id |-> "-"]

\* the answer of a staged endpoint: none served yet
NoStaged == [op |-> "none", tid |-> 0, res |-> 0, err |-> "none"]

\* the four dictionaries of a new ConnectionManager; agent_connections is a
\* sequence of <<agent_id, client_id>> in the dict's insertion order
NoConnections ==
    [active |-> {}, rooms |-> [r \in {} |-> {}], agents |-> << >>,
     calls |-> [c \in {} |-> {}]]

NoConnCall == [op |-> "none", client |-> "-"]

ManagerIs(m) ==
    /\ active_connections = m.active
    /\ room_connections = m.rooms
    /\ agent_connections = m.agents
    /\ call_connections = m.calls

IdleHandler ==
    [pc |-> "idle", op |-> "none", tid |-> 0, req |-> NoRequest,
     success |-> FALSE, ai_summary |-> "-", res |-> "none", err |-> "none",
     reply |-> <<"-", "-">>]

Init ==
    /\ nextId = 1
    /\ opsStarted = 0
    /\ faults = 0
    /\ transfers = [t \in Ids |-> NoTransfer]
    /\ active = {}
    /\ timeouts = {}
    /\ timer = [t \in Ids |-> "none"]
    /\ db = [t \in Ids |-> NoRow]
    /\ current_calls = InitCurrentCalls
    /\ lk_rooms = {}
    /\ lk_active_rooms = {}
    /\ lk_status = [t \in Ids |-> "none"]
    /\ orig_participants = InitOrigParticipants
    /\ orig_tokens = [c \in KnownCalls |-> {}]
    /\ deleteCalls = [t \in Ids |-> 0]
    /\ contextSent = [t \in Ids |-> 0]
    /\ agentUpdates = [t \in Ids |-> 0]
    /\ agent_available = is_available
    /\ call_owner = InitCallOwner
    /\ staged = NoStaged
    /\ ManagerIs(NoConnections)
    /\ conn_last = NoConnCall
    /\ handlers = [h \in Handlers |-> IdleHandler]

\* ---------------------------------------------------------------- helpers
\* a request may start on an idle handler while the request budget lasts
CanStart(h) == handlers[h].pc = "idle" /\ opsStarted < MaxOps

\* an upstream call may fail while the fault budget lasts
FaultChoices == IF faults < MaxFaults THEN {FALSE, TRUE} ELSE {FALSE}

\* the coroutine returned or raised: back to idle with its result
Finished(h, r) ==
    [handlers[h] EXCEPT !.pc = "idle", !.res = r, !.success = FALSE, !.ai_summary = "-"]

\* the coroutine raised Exception(f"...: {e}"): e names the call that failed
Failed(h, e) == [Finished(h, "Exception") EXCEPT !.err = e]

\* a request that raised before its first suspending await
Rejected(op, t, r, e) ==
    [IdleHandler EXCEPT !.op = op, !.tid = t, !.res = r, !.err = e]

\* a coroutine for request op on transfer t, suspended at (or finished before) p
Started(op, t, p) ==
    [IdleHandler EXCEPT !.pc = p, !.op = op, !.tid = t]

\* a disarming that deletes the map entry without cancelling the task
DisarmedTimerNotCancelled(t) == timer

\* asyncio Task.cancel() on the timer task followed by del transfer_timeouts[t]
DisarmedTimer(t) == IF t \in timeouts THEN [timer EXCEPT ![t] = "cancelled"] ELSE timer

\* a validation block without the capacity check of lines 66-67
ValidationErrorNoCapacity(call, src, tgt) ==
    IF call \notin KnownCalls THEN "call_not_found"
    ELSE IF src \notin KnownAgents THEN "source_not_found"
    ELSE IF tgt \notin KnownAgents THEN "target_not_found"
    ELSE IF ~is_available[tgt] \/ agent_status[tgt] # "online" THEN "not_available"
    ELSE "none"

\* validation block of initiate_warm_transfer: the ValueError it raises, if any
ValidationError(call, src, tgt) ==
    IF call \notin KnownCalls THEN "call_not_found"
    ELSE IF src \notin KnownAgents THEN "source_not_found"
    ELSE IF tgt \notin KnownAgents THEN "target_not_found"
    ELSE IF ~is_available[tgt] \/ agent_status[tgt] # "online" THEN "not_available"
    ELSE IF current_calls[tgt] >= max_concurrent_calls[tgt] THEN "at_capacity"
    ELSE "none"

\* -------------------------------------------------- initiate_warm_transfer
\* lines 46-71: draw the id, validate, then await the summarizer.  A
\* ValueError of the validation block is caught by the function's own except
\* clause and re-raised as a plain Exception (line 144).
InitiateStart(h, req) ==
    /\ CanStart(h)
    /\ ValidationError(req[1], req[2], req[3]) = "none" => nextId <= MaxTransfers
    /\ opsStarted' = opsStarted + 1
    /\ IF ValidationError(req[1], req[2], req[3]) # "none"
       THEN /\ handlers' = [handlers EXCEPT ![h] =
                   [Rejected("initiate", 0, "Exception",
                             ValidationError(req[1], req[2], req[3])) EXCEPT !.req = req]]
            /\ UNCHANGED nextId
       ELSE /\ handlers' = [handlers EXCEPT ![h] =
                   [Started("initiate", nextId, "I_summary") EXCEPT !.req = req]]
            /\ nextId' = nextId + 1
    /\ UNCHANGED <<faults, current_calls, db>>
    /\ UNCHANGED svcVars
    /\ UNCHANGED lkVars
    /\ UNCHANGED countVars
    /\ UNCHANGED stagedVars
    /\ UNCHANGED connVars

\* line 71 resumes: the summarizer returned or raised; then line 74 calls
\* create_transfer_room, which suspends in the gateway's create_room.
\* WarmTransferService takes its summarizer as a constructor argument: it may
\* return the dict lines 93-94 index ("dict"), or a plain string as the
\* AIService.generate_call_summary that is in force does ("str"), or raise.
InitiateSummary(h) ==
    /\ handlers[h].pc = "I_summary"
    /\ \E k \in {"dict", "str"}, f \in FaultChoices :
          /\ faults' = IF f THEN faults + 1 ELSE faults
          /\ handlers' = [handlers EXCEPT ![h] =
                 IF f THEN Failed(h, "summarizer")
                 ELSE [@ EXCEPT !.pc = "I_room", !.ai_summary = k]]
    /\ UNCHANGED <<nextId, opsStarted, current_calls, db>>
    /\ UNCHANGED svcVars
    /\ UNCHANGED lkVars
    /\ UNCHANGED countVars
    /\ UNCHANGED stagedVars
    /\ UNCHANGED connVars

\* a create_room that tracks the room before the gateway has created it
TrackedRoomsAlways(t, created) == lk_active_rooms \cup {t}

\* create_room, livekit_service.py lines 134-144: active_rooms after the
\* gateway call for briefing room t returned (created) or raised
TrackedRooms(t, created) == IF created THEN lk_active_rooms \cup {t} ELSE lk_active_rooms

\* lines 84-95: the Transfer row inserted for the request
NewRow(req) ==
    [NoRow EXCEPT !.status = "initiated",
                  !.call_id = req[1],
                  !.source_agent_id = req[2],
                  !.target_agent_id = req[3]]

\* a live record that is created without the summary
NewTransferNoSummary(req) ==
    [NoTransfer EXCEPT !.call_id = req[1],
                       !.source_agent_id = req[2],
                       !.target_agent_id = req[3],
                       !.status = "initiated",
                       !.phase = "waiting_for_agents"]

\* lines 101-112: the record put into active_transfers, holding the summary
\* the summarizer returned
NewTransfer(req) ==
    [NoTransfer EXCEPT !.call_id = req[1],
                       !.source_agent_id = req[2],
                       !.target_agent_id = req[3],
                       !.status = "initiated",
                       !.ai_summary = "dict",
                       !.phase = "waiting_for_agents"]

\* line 74 resumes: the room exists or creation failed; lines 82-137 then run
\* without suspending in a way that matters (the two sends of
\* _notify_transfer_initiation swallow their errors and nothing follows them)
InitiateRoom(h) ==
    LET t == handlers[h].tid
        req == handlers[h].req
    IN
    /\ handlers[h].pc = "I_room"
    /\ \E f \in IF faults < MaxFaults THEN {"none", "room", "db"} ELSE {"none"} :
          /\ faults' = IF f = "none" THEN faults ELSE faults + 1
          /\ IF f = "room"
             THEN \* create_room raised: nothing was tracked
                  /\ handlers' = [handlers EXCEPT ![h] = Failed(h, "room")]
                  /\ lk_active_rooms' = TrackedRooms(t, FALSE)
                  /\ UNCHANGED <<db, lk_rooms, lk_status>>
                  /\ UNCHANGED svcVars
             ELSE /\ lk_rooms' = lk_rooms \cup {t}
                  /\ lk_active_rooms' = TrackedRooms(t, TRUE)
                  /\ lk_status' = [lk_status EXCEPT ![t] = "initiated"]
                  /\ IF handlers[h].ai_summary = "str" \/ f = "db"
                     THEN \* ai_summary["summary"] on a str, or the insert failed
                          /\ handlers' = [handlers EXCEPT ![h] =
                                 Failed(h, IF handlers[h].ai_summary = "str"
                                           THEN "type_error" ELSE "db")]
                          /\ UNCHANGED db
                          /\ UNCHANGED svcVars
                     ELSE /\ db' = [db EXCEPT ![t] = NewRow(req)]
                          /\ transfers' = [transfers EXCEPT ![t] = NewTransfer(req)]
                          /\ active' = active \cup {t}
                          /\ timer' = [timer EXCEPT ![t] = "sleeping"]
                          /\ timeouts' = timeouts \cup {t}
                          /\ handlers' = [handlers EXCEPT ![h] = Finished(h, "ok")]
    /\ UNCHANGED <<nextId, opsStarted, current_calls, orig_participants,
                   orig_tokens, deleteCalls>>
    /\ UNCHANGED countVars
    /\ UNCHANGED stagedVars
    /\ UNCHANGED connVars

\* ------------------------------------------------------ join_transfer_room
\* notify_transfer_status broadcasts over active_connections with an await in
\* the loop: it returns, or raises when the connection set changes meanwhile.
\* Nothing but the return follows it in join_transfer_room, so its outcome is
\* drawn where the call is made.

\* a check that is satisfied by either operator being present
EitherJoined(t, joined) ==
    /\ \/ transfers[t].source_agent_id \in joined
       \/ transfers[t].target_agent_id \in joined
    /\ transfers[t].phase = "waiting_for_agents"

\* lines 179-182: both operators are recorded and the transfer still waits
BothJoined(t, joined) ==
    /\ transfers[t].source_agent_id \in joined
    /\ transfers[t].target_agent_id \in joined
    /\ transfers[t].phase = "waiting_for_agents"

\* lines 154-187: look the transfer up, issue the credential (no suspension in
\* add_participant_to_room), record the participant and, when both operators
\* are present in waiting_for_agents, enter briefing and await the context
JoinStart(h, t, a) ==
    /\ CanStart(h)
    /\ opsStarted' = opsStarted + 1
    /\ IF t \notin active
       THEN /\ handlers' = [handlers EXCEPT ![h] =
                   Rejected("join", t, "ValueError", "not_found")]
            /\ UNCHANGED <<transfers, faults>>
       ELSE LET joined == transfers[t].participants \cup {a}
                both == BothJoined(t, joined)
            IN IF both
               THEN /\ transfers' = [transfers EXCEPT ![t].participants = joined,
                                                      ![t].phase = "briefing",
                                                      ![t].status = "in_progress"]
                    /\ handlers' = [handlers EXCEPT ![h] = Started("join", t, "J_context")]
                    /\ UNCHANGED faults
               ELSE /\ transfers' = [transfers EXCEPT ![t].participants = joined]
                    /\ \E f \in FaultChoices :
                          /\ faults' = IF f THEN faults + 1 ELSE faults
                          /\ handlers' = [handlers EXCEPT ![h] =
                                 IF f THEN Rejected("join", t, "Exception", "notify")
                                 ELSE Rejected("join", t, "ok", "none")]
    /\ UNCHANGED <<nextId, active, timeouts, timer, db, current_calls>>
    /\ UNCHANGED lkVars
    /\ UNCHANGED countVars
    /\ UNCHANGED stagedVars
    /\ UNCHANGED connVars

\* line 187 resumes: generate_agent_context returned or raised; then
\* _share_ai_context looks the transfer up again (KeyError once it has been
\* removed from active_transfers) and awaits send_data_to_room
JoinContext(h) ==
    LET t == handlers[h].tid IN
    /\ handlers[h].pc = "J_context"
    /\ \E f \in FaultChoices :
          /\ faults' = IF f THEN faults + 1 ELSE faults
          /\ handlers' = [handlers EXCEPT ![h] =
                 IF f THEN Failed(h, "context")
                 ELSE IF t \notin active THEN Failed(h, "key_error")
                 ELSE [@ EXCEPT !.pc = "J_send"]]
    /\ UNCHANGED <<nextId, opsStarted, db, current_calls>>
    /\ UNCHANGED svcVars
    /\ UNCHANGED lkVars
    /\ UNCHANGED countVars
    /\ UNCHANGED stagedVars
    /\ UNCHANGED connVars

\* line 193 resumes: the data message was sent or send_data_to_room raised;
\* lines 196-214 write the row (if it exists) and notify
JoinSend(h) ==
    LET t == handlers[h].tid IN
    /\ handlers[h].pc = "J_send"
    /\ \E f \in IF faults < MaxFaults THEN {"none", "send", "db", "notify"} ELSE {"none"} :
          /\ faults' = IF f = "none" THEN faults ELSE faults + 1
          /\ contextSent' = IF f = "send" THEN contextSent
                            ELSE [contextSent EXCEPT ![t] = @ + 1]
          /\ db' = IF f \in {"send", "db"} \/ db[t].status = "none" THEN db
                   ELSE [db EXCEPT ![t].status = "in_progress"]
          /\ handlers' = [handlers EXCEPT ![h] =
                 IF f = "none" THEN Finished(h, "ok") ELSE Failed(h, f)]
    /\ UNCHANGED <<nextId, opsStarted, current_calls>>
    /\ UNCHANGED svcVars
    /\ UNCHANGED lkVars
    /\ UNCHANGED agentUpdates
    /\ UNCHANGED stagedVars
    /\ UNCHANGED connVars

\* ------------------------------------------------------- _cleanup_transfer
\* a cleanup that empties the live set
CleanedActiveAll(t) == {}

\* lines 507-508
CleanedActive(t) == active \ {t}

\* lines 510-512
CleanedTimeouts(t) == timeouts \ {t}

\* -------------------------------------------------------- complete_transfer
\* _update_agent_post_transfer, lines 489-503
UpdatedAgents(src, tgt) ==
    LET afterSource == IF src \in KnownAgents
                       THEN [current_calls EXCEPT ![src] = IF @ - 1 > 0 THEN @ - 1 ELSE 0]
                       ELSE current_calls
    IN IF tgt \in KnownAgents
       THEN [afterSource EXCEPT ![tgt] = @ + 1]
       ELSE afterSource

\* a complete_transfer that updates the Directory on either branch
AgentsAfterAnyOutcome(success, src, tgt) == UpdatedAgents(src, tgt)

\* lines 247-270: only the success branch calls _update_agent_post_transfer
AgentsAfterOutcome(success, src, tgt) ==
    IF success THEN UpdatedAgents(src, tgt) ELSE current_calls

\* a complete_transfer that takes the success branch whatever it was told
TakesSuccessBranchAlways(success) == TRUE

\* line 247, `if success:`
TakesSuccessBranch(success) == success

\* lines 236-252 (success) or 236-288 (failure reported by the caller):
\* look the transfer up, disarm the timer, then either enter
\* LiveKitService.complete_warm_transfer up to its first await
\* (remove_participant_from_room) or mark the transfer failed, write the row
\* and await the notification
CompleteStart(h, t, success) ==
    /\ CanStart(h)
    /\ opsStarted' = opsStarted + 1
    /\ IF t \notin active
       THEN /\ handlers' = [handlers EXCEPT ![h] =
                   Rejected("complete", t, "ValueError", "not_found")]
            /\ UNCHANGED <<faults, db>>
            /\ UNCHANGED svcVars
       ELSE /\ timer' = DisarmedTimer(t)
            /\ timeouts' = timeouts \ {t}
            /\ UNCHANGED active
            /\ IF TakesSuccessBranch(success)
               THEN IF lk_status[t] = "none"
                    THEN \* complete_warm_transfer: "Transfer not found"
                         /\ transfers' = [transfers EXCEPT ![t].status = "error"]
                         /\ handlers' = [handlers EXCEPT ![h] =
                                Rejected("complete", t, "Exception", "gateway")]
                         /\ UNCHANGED <<faults, db>>
                    ELSE /\ handlers' = [handlers EXCEPT ![h] =
                                [Started("complete", t, "C_remove") EXCEPT !.success = success]]
                         /\ UNCHANGED <<faults, db, transfers>>
               ELSE \E f \in FaultChoices :
                       /\ faults' = IF f THEN faults + 1 ELSE faults
                       /\ IF f
                          THEN \* the row update raised: except clause, line 310
                               /\ transfers' = [transfers EXCEPT ![t].status = "error",
                                                                 ![t].completed_at = TRUE]
                               /\ handlers' = [handlers EXCEPT ![h] =
                                      Rejected("complete", t, "Exception", "db")]
                               /\ UNCHANGED db
                          ELSE /\ transfers' = [transfers EXCEPT ![t].status = "failed",
                                                                 ![t].completed_at = TRUE]
                               /\ db' = IF db[t].status = "none" THEN db
                                        ELSE [db EXCEPT ![t].status = "failed",
                                                        ![t].completed_at = TRUE,
                                                        ![t].was_successful = "false"]
                               /\ handlers' = [handlers EXCEPT ![h] =
                                      Started("complete", t, "C_notify")]
    /\ current_calls' =
          IF t \in active /\ ~TakesSuccessBranch(success)
          THEN AgentsAfterOutcome(FALSE, transfers[t].source_agent_id,
                                  transfers[t].target_agent_id)
          ELSE current_calls
    /\ UNCHANGED nextId
    /\ UNCHANGED lkVars
    /\ UNCHANGED countVars
    /\ UNCHANGED stagedVars
    /\ UNCHANGED connVars

\* remove_participant_from_room, lines 277-298: while the coroutine is
\* suspended in lk_api.room.remove_participant the gateway removes the source
\* operator from the original room, or fails; the failure is swallowed
\* (return False, which complete_warm_transfer does not look at)
RemoveParticipant(h) ==
    LET t == handlers[h].tid
        c == transfers[t].call_id
    IN
    /\ handlers[h].pc = "C_remove"
    /\ \E f \in FaultChoices :
          /\ faults' = IF f THEN faults + 1 ELSE faults
          /\ orig_participants' =
                IF f THEN orig_participants
                ELSE [orig_participants EXCEPT ![c] = @ \ {transfers[t].source_agent_id}]
    /\ handlers' = [handlers EXCEPT ![h].pc = "C_removed"]
    /\ UNCHANGED <<nextId, opsStarted, db, current_calls, lk_rooms,
                   lk_active_rooms, lk_status, orig_tokens, deleteCalls>>
    /\ UNCHANGED svcVars
    /\ UNCHANGED countVars
    /\ UNCHANGED stagedVars
    /\ UNCHANGED connVars

\* livekit_service.py line 364 resumes; add_participant_to_room (lines
\* 370-374) generates the target's credential for the original room without
\* suspending; then delete_room is called and awaited (line 377)
CompleteRemove(h) ==
    LET t == handlers[h].tid
        c == transfers[t].call_id
    IN
    /\ handlers[h].pc = "C_removed"
    /\ orig_tokens' = [orig_tokens EXCEPT ![c] = @ \cup {transfers[t].target_agent_id}]
    /\ deleteCalls' = [deleteCalls EXCEPT ![t] = @ + 1]
    /\ handlers' = [handlers EXCEPT ![h].pc = "C_delete"]
    /\ UNCHANGED <<nextId, opsStarted, faults, db, current_calls, lk_rooms,
                   lk_active_rooms, lk_status, orig_participants>>
    /\ UNCHANGED svcVars
    /\ UNCHANGED countVars
    /\ UNCHANGED stagedVars
    /\ UNCHANGED connVars

\* livekit_service.py line 377 resumes: delete_room deleted the briefing room
\* or swallowed the gateway's error; complete_warm_transfer returns, and
\* transfer_service.py lines 255-288 update the Directory, mark the transfer
\* completed, write the row and await the notification
CompleteDelete(h) ==
    LET t == handlers[h].tid IN
    /\ handlers[h].pc = "C_delete"
    /\ \E f \in IF faults < MaxFaults THEN {"none", "delete", "agents", "db"} ELSE {"none"} :
          /\ faults' = IF f = "none" THEN faults ELSE faults + 1
          /\ lk_rooms' = IF f = "delete" THEN lk_rooms ELSE lk_rooms \ {t}
          /\ lk_active_rooms' = IF f = "delete" THEN lk_active_rooms ELSE lk_active_rooms \ {t}
          /\ lk_status' = [lk_status EXCEPT ![t] = "completed"]
          /\ current_calls' =
                IF f = "agents" THEN current_calls
                ELSE AgentsAfterOutcome(TRUE, transfers[t].source_agent_id,
                                        transfers[t].target_agent_id)
          /\ agentUpdates' = IF f = "agents" THEN agentUpdates
                             ELSE [agentUpdates EXCEPT ![t] = @ + 1]
          /\ transfers' =
                IF f = "agents" THEN [transfers EXCEPT ![t].status = "error"]
                ELSE IF f = "db" THEN [transfers EXCEPT ![t].status = "error",
                                                        ![t].completed_at = TRUE]
                ELSE [transfers EXCEPT ![t].status = "completed", ![t].completed_at = TRUE]
          /\ db' = IF f \in {"agents", "db"} \/ db[t].status = "none" THEN db
                   ELSE [db EXCEPT ![t].status = "completed",
                                   ![t].completed_at = TRUE,
                                   ![t].was_successful = "true"]
          /\ handlers' = [handlers EXCEPT ![h] =
                 IF f \in {"agents", "db"} THEN Failed(h, f)
                 ELSE [@ EXCEPT !.pc = "C_notify"]]
    /\ UNCHANGED <<nextId, opsStarted, active, timeouts, timer,
                   orig_participants, orig_tokens, deleteCalls>>
    /\ UNCHANGED contextSent
    /\ UNCHANGED stagedVars
    /\ UNCHANGED connVars

\* line 288 resumes: the notification was broadcast, then _cleanup_transfer
\* and return; or the broadcast raised and the except clause marks "error"
CompleteNotify(h) ==
    LET t == handlers[h].tid IN
    /\ handlers[h].pc = "C_notify"
    /\ \E f \in FaultChoices :
          /\ faults' = IF f THEN faults + 1 ELSE faults
          /\ IF f
             THEN /\ transfers' = [transfers EXCEPT ![t].status = "error"]
                  /\ UNCHANGED <<active, timeouts, timer>>
                  /\ handlers' = [handlers EXCEPT ![h] = Failed(h, "notify")]
             ELSE /\ active' = CleanedActive(t)
                  /\ timer' = DisarmedTimer(t)
                  /\ timeouts' = CleanedTimeouts(t)
                  /\ UNCHANGED transfers
                  /\ handlers' = [handlers EXCEPT ![h] = Finished(h, "ok")]
    /\ UNCHANGED <<nextId, opsStarted, db, current_calls>>
    /\ UNCHANGED lkVars
    /\ UNCHANGED countVars
    /\ UNCHANGED stagedVars
    /\ UNCHANGED connVars

\* ---------------------------------------------------------- cancel_transfer
\* lines 320-333: look the transfer up, disarm the timer, call delete_room for
\* the briefing room and suspend in it
CancelStart(h, t) ==
    /\ CanStart(h)
    /\ opsStarted' = opsStarted + 1
    /\ IF t \notin active
       THEN /\ handlers' = [handlers EXCEPT ![h] =
                   Rejected("cancel", t, "ValueError", "not_found")]
            /\ UNCHANGED <<timer, timeouts, deleteCalls>>
       ELSE /\ timer' = DisarmedTimer(t)
            /\ timeouts' = timeouts \ {t}
            /\ deleteCalls' = [deleteCalls EXCEPT ![t] = @ + 1]
            /\ handlers' = [handlers EXCEPT ![h] = Started("cancel", t, "X_delete")]
    /\ UNCHANGED <<nextId, faults, transfers, active, db, current_calls, lk_rooms,
                   lk_active_rooms, lk_status, orig_participants, orig_tokens>>
    /\ UNCHANGED countVars
    /\ UNCHANGED stagedVars
    /\ UNCHANGED connVars

\* a cancel_transfer out of which a failed delete_room raises as well
CancelRaisesGateway(f) == f \in {"db", "delete"}

\* the failures that leave lines 333-345 as an exception: delete_room catches
\* its own (livekit_service.py lines 174-176), the row update does not
CancelRaises(f) == f = "db"

\* line 333 resumes: delete_room deleted the room or swallowed the gateway's
\* error; lines 336-348 mark the transfer cancelled, write the row and await
\* the notification.  A failed row update leaves through the except clause.
CancelDelete(h) ==
    LET t == handlers[h].tid IN
    /\ handlers[h].pc = "X_delete"
    /\ \E f \in IF faults < MaxFaults THEN {"none", "delete", "db"} ELSE {"none"} :
          /\ faults' = IF f = "none" THEN faults ELSE faults + 1
          /\ lk_rooms' = IF f = "delete" THEN lk_rooms ELSE lk_rooms \ {t}
          /\ lk_active_rooms' = IF f = "delete" THEN lk_active_rooms ELSE lk_active_rooms \ {t}
          /\ db' = IF f = "db" \/ db[t].status = "none" THEN db
                   ELSE [db EXCEPT ![t].status = "cancelled"]
          /\ handlers' = [handlers EXCEPT ![h] =
                 IF CancelRaises(f) THEN Failed(h, f) ELSE [@ EXCEPT !.pc = "X_notify"]]
    /\ transfers' = [transfers EXCEPT ![t].status = "cancelled", ![t].cancelled_at = TRUE]
    /\ UNCHANGED <<nextId, opsStarted, active, timeouts, timer, current_calls,
                   lk_status, orig_participants, orig_tokens, deleteCalls>>
    /\ UNCHANGED countVars
    /\ UNCHANGED stagedVars
    /\ UNCHANGED connVars

\* line 348 resumes: the notification was broadcast, then _cleanup_transfer and
\* return; or the broadcast raised and the except clause re-raises
CancelNotify(h) ==
    LET t == handlers[h].tid IN
    /\ handlers[h].pc = "X_notify"
    /\ \E f \in FaultChoices :
          /\ faults' = IF f THEN faults + 1 ELSE faults
          /\ IF f
             THEN /\ UNCHANGED <<active, timeouts, timer>>
                  /\ handlers' = [handlers EXCEPT ![h] = Failed(h, "notify")]
             ELSE /\ active' = CleanedActive(t)
                  /\ timer' = DisarmedTimer(t)
                  /\ timeouts' = CleanedTimeouts(t)
                  /\ handlers' = [handlers EXCEPT ![h] = Finished(h, "ok")]
    /\ UNCHANGED <<nextId, opsStarted, transfers, db, current_calls>>
    /\ UNCHANGED lkVars
    /\ UNCHANGED countVars
    /\ UNCHANGED stagedVars
    /\ UNCHANGED connVars

\* -------------------------------------------------- _handle_transfer_timeout
\* The sleep of TRANSFER_TIMEOUT_SECONDS is over and the timer task runs
\* cancel_transfer(reason="timeout") itself.  Line 328 therefore calls
\* Task.cancel() on the running task: the CancelledError is delivered at the
\* first suspending await, inside delete_room's gateway call.  CancelledError
\* is not an Exception, so neither delete_room nor cancel_transfer catches it
\* and the task ends there.  Whether the delete request had already been
\* written to the gateway connection when the await was cancelled is not
\* determined: the briefing room is deleted or it is not.
TimerFire(t) ==
    /\ timer[t] = "sleeping"
    /\ IF t \in active
       THEN /\ timer' = [timer EXCEPT ![t] = "fired"]
            /\ timeouts' = timeouts \ {t}
            /\ deleteCalls' = [deleteCalls EXCEPT ![t] = @ + 1]
            /\ \E sent \in BOOLEAN :
                  lk_rooms' = IF sent THEN lk_rooms \ {t} ELSE lk_rooms
       ELSE /\ timer' = [timer EXCEPT ![t] = "fired"]
            /\ UNCHANGED <<timeouts, deleteCalls, lk_rooms>>
    /\ UNCHANGED <<nextId, opsStarted, faults, transfers, active, db, current_calls,
                   lk_active_rooms, lk_status, orig_participants, orig_tokens,
                   handlers>>
    /\ UNCHANGED countVars
    /\ UNCHANGED stagedVars
    /\ UNCHANGED connVars

\* ------------------------------------------------------ get_transfer_status
\* ids offered to get_transfer_status: 0 is an id that initiate never drew
StatusIds == Ids \cup {0}

\* a get_transfer_status that looks at active_transfers only
StatusReplyLiveOnly(t) ==
    IF t \in active
    THEN [res |-> "ok", status |-> transfers[t].status, phase |-> transfers[t].phase]
    ELSE [res |-> "ValueError", status |-> "-", phase |-> "-"]

\* lines 372-397: the answer for id t, from active_transfers or else from the
\* Transfer row, whose phase is "completed" if completed_at is set and
\* "unknown" otherwise; ValueError when there is neither
StatusReply(t) ==
    IF t \in active
    THEN [res |-> "ok", status |-> transfers[t].status, phase |-> transfers[t].phase]
    ELSE IF t \in Ids /\ db[t].status # "none"
    THEN [res |-> "ok", status |-> db[t].status,
          phase |-> IF db[t].completed_at THEN "completed" ELSE "unknown"]
    ELSE [res |-> "ValueError", status |-> "-", phase |-> "-"]

\* the whole of get_transfer_status: it has no suspending await
GetTransferStatus(h, t) ==
    /\ CanStart(h)
    /\ opsStarted' = opsStarted + 1
    /\ handlers' = [handlers EXCEPT ![h] =
           [Rejected("status", t, StatusReply(t).res,
                     IF StatusReply(t).res = "ok" THEN "none" ELSE "not_found")
              EXCEPT !.reply = <<StatusReply(t).status, StatusReply(t).phase>>]]
    /\ UNCHANGED <<nextId, faults, db, current_calls>>
    /\ UNCHANGED svcVars
    /\ UNCHANGED lkVars
    /\ UNCHANGED countVars
    /\ UNCHANGED stagedVars
    /\ UNCHANGED connVars

\* ------------------------------------------- staged warm-transfer endpoints
\* api/v1/endpoints/warm_transfer.py.  complete_briefing and finalize_transfer
\* work on the Transfer rows alone and contain no await: each request is one
\* step.  Every raise inside them, the HTTPException of a rejected request
\* included, is caught by their `except Exception` and answered as 500.

\* the row of id t exists
RowFound(t) == t \in Ids /\ db[t].status # "none"

\* the answer of staged endpoint op for id t
StagedAnswer(op, t, res, err) == [op |-> op, tid |-> t, res |-> res, err |-> err]

\* line 368: the status complete_briefing accepts
BriefingAllowed(status) == status = "initiated"

\* a finalize_transfer that also accepts a transfer already finalized
FinalizeAllowedAgain(status) == status \in {"briefing_complete", "completed"}

\* line 427: the status finalize_transfer accepts
FinalizeAllowed(status) == status = "briefing_complete"

\* lines 364-391
CompleteBriefing(t) ==
    /\ IF ~RowFound(t)
       THEN /\ staged' = StagedAnswer("complete_briefing", t, 500, "not_found")
            /\ UNCHANGED <<faults, db, orig_tokens>>
       ELSE IF ~BriefingAllowed(db[t].status)
       THEN /\ staged' = StagedAnswer("complete_briefing", t, 500, "wrong_state")
            /\ UNCHANGED <<faults, db, orig_tokens>>
       ELSE \E f \in FaultChoices :
               /\ faults' = IF f THEN faults + 1 ELSE faults
               /\ orig_tokens' = [orig_tokens EXCEPT ![db[t].call_id] =
                                      @ \cup {db[t].target_agent_id}]
               /\ db' = IF f THEN db ELSE [db EXCEPT ![t].status = "briefing_complete"]
               /\ staged' = IF f THEN StagedAnswer("complete_briefing", t, 500, "db")
                             ELSE StagedAnswer("complete_briefing", t, 200, "none")
    /\ UNCHANGED <<nextId, opsStarted, current_calls, lk_rooms, lk_active_rooms,
                   lk_status, orig_participants, deleteCalls, handlers,
                   agent_available, call_owner>>
    /\ UNCHANGED svcVars
    /\ UNCHANGED countVars
    /\ UNCHANGED connVars

\* lines 443 and 447: the two load counters after a finalization
FinalizedCalls(src, tgt) ==
    LET afterOld == [current_calls EXCEPT ![src] = @ - 1]
    IN [afterOld EXCEPT ![tgt] = @ + 1]

\* lines 444-445 and 448-449: is_available after a finalization
FinalizedAvailable(src, tgt) ==
    LET calls == FinalizedCalls(src, tgt)
        afterOld == IF [current_calls EXCEPT ![src] = @ - 1][src] < max_concurrent_calls[src]
                    THEN [agent_available EXCEPT ![src] = TRUE]
                    ELSE agent_available
    IN IF calls[tgt] >= max_concurrent_calls[tgt]
       THEN [afterOld EXCEPT ![tgt] = FALSE]
       ELSE afterOld

\* lines 423-455.  Lines 437-440 write into `call.metadata`, which is no
\* column of Call (the column is call_metadata): whether the item assignment
\* on what the ORM base class provides under that name passes or raises is
\* decided outside this code, so both are possible.  Nothing is durable
\* before the commit of line 455.
FinalizeTransfer(t) ==
    /\ IF ~RowFound(t)
       THEN /\ staged' = StagedAnswer("finalize", t, 500, "not_found")
            /\ UNCHANGED <<faults, db, current_calls, agent_available, call_owner>>
       ELSE IF ~FinalizeAllowed(db[t].status)
       THEN /\ staged' = StagedAnswer("finalize", t, 500, "wrong_state")
            /\ UNCHANGED <<faults, db, current_calls, agent_available, call_owner>>
       ELSE \E written \in BOOLEAN, f \in FaultChoices :
               IF ~written \/ f
               THEN /\ faults' = IF written THEN faults + 1 ELSE faults
                    /\ staged' = StagedAnswer("finalize", t, 500,
                                               IF written THEN "db" ELSE "type_error")
                    /\ UNCHANGED <<db, current_calls, agent_available, call_owner>>
               ELSE /\ call_owner' = [call_owner EXCEPT ![db[t].call_id] =
                                          db[t].target_agent_id]
                    /\ current_calls' = FinalizedCalls(db[t].source_agent_id,
                                                       db[t].target_agent_id)
                    /\ agent_available' = FinalizedAvailable(db[t].source_agent_id,
                                                             db[t].target_agent_id)
                    /\ db' = [db EXCEPT ![t].status = "completed",
                                        ![t].completed_at = TRUE]
                    /\ staged' = StagedAnswer("finalize", t, 200, "none")
                    /\ UNCHANGED faults
    /\ UNCHANGED <<nextId, opsStarted, handlers>>
    /\ UNCHANGED svcVars
    /\ UNCHANGED lkVars
    /\ UNCHANGED countVars
    /\ UNCHANGED connVars

\* ------------------------------------------------------------ specification
HandlerStep(h) ==
    \/ InitiateSummary(h)
    \/ InitiateRoom(h)
    \/ JoinContext(h)
    \/ JoinSend(h)
    \/ RemoveParticipant(h)
    \/ CompleteRemove(h)
    \/ CompleteDelete(h)
    \/ CompleteNotify(h)
    \/ CancelDelete(h)
    \/ CancelNotify(h)

Request(h) ==
    \/ \E req \in InitiateRequests : InitiateStart(h, req)
    \/ \E t \in Ids, a \in JoinAgents : JoinStart(h, t, a)
    \/ \E t \in Ids, success \in BOOLEAN : CompleteStart(h, t, success)
    \/ \E t \in Ids : CancelStart(h, t)
    \/ \E t \in StatusIds : GetTransferStatus(h, t)

Next ==
    \/ \E h \in Handlers : Request(h)
    \/ \E h \in Handlers : HandlerStep(h)
    \/ \E t \in Ids : TimerFire(t)

Spec == Init /\ [][Next]_vars

\* The staged endpoints on their own.  The Transfer rows they find are rows
\* that initiate_warm_transfer inserted for a request that passed validation
\* (transfer_service.py lines 84-97), in a status the service leaves a row in.
StagedRequests == {r \in InitiateRequests : ValidationError(r[1], r[2], r[3]) = "none"}

StagedRows ==
    {NoRow} \cup
    { [NewRow(r) EXCEPT !.status = st] :
         r \in StagedRequests, st \in {"initiated", "in_progress", "cancelled"} }

StagedInit ==
    /\ nextId = 1
    /\ opsStarted = 0
    /\ faults = 0
    /\ transfers = [t \in Ids |-> NoTransfer]
    /\ active = {}
    /\ timeouts = {}
    /\ timer = [t \in Ids |-> "none"]
    /\ current_calls = InitCurrentCalls
    /\ db \in [Ids -> StagedRows]
    /\ lk_rooms = {}
    /\ lk_active_rooms = {}
    /\ lk_status = [t \in Ids |-> "none"]
    /\ orig_participants = InitOrigParticipants
    /\ orig_tokens = [c \in KnownCalls |-> {}]
    /\ deleteCalls = [t \in Ids |-> 0]
    /\ contextSent = [t \in Ids |-> 0]
    /\ agentUpdates = [t \in Ids |-> 0]
    /\ agent_available = is_available
    /\ call_owner = InitCallOwner
    /\ staged = NoStaged
    /\ ManagerIs(NoConnections)
    /\ conn_last = NoConnCall
    /\ handlers = [h \in Handlers |-> IdleHandler]

StagedNext ==
    \/ \E t \in StatusIds : CompleteBriefing(t)
    \/ \E t \in StatusIds : FinalizeTransfer(t)

StagedSpec == StagedInit /\ [][StagedNext]_vars

\* -------------------------------------------------- the ConnectionManager
\* websocket_manager.py.  Each method is one step: it writes its dictionary
\* before its first send, and a send that fails runs disconnect for the
\* receiver (send_personal_message, lines 69-71).
ConnClients == {"k1", "k2"}
ConnRooms == {"r1", "r2"}
ConnAgents == {"opA", "opB"}

restVars == <<nextId, opsStarted, faults, svcVars, db, current_calls, lkVars,
              countVars, stagedVars, handlers>>

\* the manager's four dictionaries as one value
Manager ==
    [active |-> active_connections, rooms |-> room_connections,
     agents |-> agent_connections, calls |-> call_connections]

ManagerBecomes(m) ==
    /\ active_connections' = m.active
    /\ room_connections' = m.rooms
    /\ agent_connections' = m.agents
    /\ call_connections' = m.calls

ConnCall(op, c) == [op |-> op, client |-> c]

AgentKeys(agents) == {agents[i][1] : i \in 1..Len(agents)}

AgentIndex(agents, a) == CHOOSE i \in 1..Len(agents) : agents[i][1] = a

\* line 141: assigning an existing key keeps its place, a new key goes last
Registered(agents, a, c) ==
    IF a \in AgentKeys(agents)
    THEN [agents EXCEPT ![AgentIndex(agents, a)] = <<a, c>>]
    ELSE Append(agents, <<a, c>>)

WithoutEntry(agents, i) ==
    SubSeq(agents, 1, i - 1) \o SubSeq(agents, i + 1, Len(agents))

\* lines 49-53: the first agent, in the dict's order, whose connection is the
\* client; the loop breaks there.  0 stands for None.
AgentToRemove(agents, c) ==
    IF \E i \in 1..Len(agents) : agents[i][2] = c
    THEN CHOOSE i \in 1..Len(agents) :
             /\ agents[i][2] = c
             /\ \A j \in 1..(i - 1) : agents[j][2] # c
    ELSE 0

\* lines 39-61: disconnect(client_id)
Disconnected(m, c) ==
    [active |-> m.active \ {c},
     rooms |-> [r \in DOMAIN m.rooms |-> m.rooms[r] \ {c}],
     agents |-> IF AgentToRemove(m.agents, c) # 0
                THEN WithoutEntry(m.agents, AgentToRemove(m.agents, c))
                ELSE m.agents,
     calls |-> [k \in DOMAIN m.calls |-> m.calls[k] \ {c}]]

\* lines 63-71: a send is attempted only to a connected client; when it
\* raises, the client is disconnected
SendPersonalMessage(m, c, sent) ==
    IF c \in m.active /\ ~sent THEN Disconnected(m, c) ELSE m

\* lines 128-137: the clients of the room a send is attempted to
RoomReceivers(m, room, exclude) ==
    IF room \in DOMAIN m.rooms
    THEN (m.rooms[room] \ exclude) \cap m.active
    ELSE {}

\* lines 135-137: the sends succeed up to the first one that fails; its
\* disconnect discards from the set being iterated, which ends the loop.
\* "-" stands for: no send failed.
BroadcastToRoom(m, bad) ==
    IF bad = "-" THEN m ELSE Disconnected(m, bad)

\* lines 26-37: connect(websocket, client_id)
Connect(c) ==
    /\ \E accepted \in BOOLEAN, sent \in BOOLEAN :
          ManagerBecomes(
              IF accepted
              THEN SendPersonalMessage(
                       [Manager EXCEPT !.active = @ \cup {c}], c, sent)
              ELSE Manager)
    /\ conn_last' = ConnCall("connect", c)
    /\ UNCHANGED restVars

\* lines 39-61: disconnect(client_id)
Disconnect(c) ==
    /\ ManagerBecomes(Disconnected(Manager, c))
    /\ conn_last' = ConnCall("disconnect", c)
    /\ UNCHANGED restVars

\* lines 92-95: the room's set is created when missing, the client is added
Joined(m, c, room) ==
    [m EXCEPT !.rooms =
        [r \in DOMAIN m.rooms \cup {room} |->
            IF r = room
            THEN (IF room \in DOMAIN m.rooms THEN m.rooms[room] ELSE {})
                     \cup {c}
            ELSE m.rooms[r]]]

\* lines 90-109: join_room(client_id, room_id)
JoinRoom(c, room) ==
    /\ \E sent \in BOOLEAN :
          \E bad \in {"-"} \cup
                     RoomReceivers(SendPersonalMessage(Joined(Manager, c, room),
                                                       c, sent), room, {c}) :
             ManagerBecomes(
                 BroadcastToRoom(
                     SendPersonalMessage(Joined(Manager, c, room), c, sent),
                     bad))
    /\ conn_last' = ConnCall("join_room", c)
    /\ UNCHANGED restVars

\* lines 113-118: the client is discarded and an empty room is deleted
Left(m, c, room) ==
    [m EXCEPT !.rooms =
        IF m.rooms[room] \ {c} = {}
        THEN [r \in DOMAIN m.rooms \ {room} |-> m.rooms[r]]
        ELSE [m.rooms EXCEPT ![room] = @ \ {c}]]

\* lines 111-126: leave_room(client_id, room_id)
LeaveRoom(c, room) ==
    /\ IF room \in DOMAIN room_connections
       THEN \E bad \in {"-"} \cup RoomReceivers(Left(Manager, c, room), room, {}) :
                ManagerBecomes(BroadcastToRoom(Left(Manager, c, room), bad))
       ELSE ManagerBecomes(Manager)
    /\ conn_last' = ConnCall("leave_room", c)
    /\ UNCHANGED restVars

\* lines 139-147: register_agent(agent_id, client_id)
RegisterAgent(a, c) ==
    /\ \E sent \in BOOLEAN :
          ManagerBecomes(
              SendPersonalMessage(
                  [Manager EXCEPT !.agents = Registered(@, a, c)], c, sent))
    /\ conn_last' = ConnCall("register_agent", c)
    /\ UNCHANGED restVars

\* lines 149-159: unregister_agent(agent_id)
UnregisterAgent(a) ==
    /\ IF a \in AgentKeys(agent_connections)
       THEN \E sent \in BOOLEAN :
               ManagerBecomes(
                   SendPersonalMessage(
                       [Manager EXCEPT !.agents =
                           WithoutEntry(@, AgentIndex(@, a))],
                       agent_connections[AgentIndex(agent_connections, a)][2],
                       sent))
       ELSE ManagerBecomes(Manager)
    /\ conn_last' = ConnCall("unregister_agent", "-")
    /\ UNCHANGED restVars

ConnNext ==
    \/ \E c \in ConnClients : Connect(c)
    \/ \E c \in ConnClients : Disconnect(c)
    \/ \E c \in ConnClients, room \in ConnRooms : JoinRoom(c, room)
    \/ \E c \in ConnClients, room \in ConnRooms : LeaveRoom(c, room)
    \/ \E a \in ConnAgents, c \in ConnClients : RegisterAgent(a, c)
    \/ \E a \in ConnAgents : UnregisterAgent(a)

ConnSpec == Init /\ [][ConnNext]_vars

\* every suspended coroutine is resumed and every armed timer fires; requests
\* arrive only as the environment sends them
FairSpec ==
    /\ Spec
    /\ \A h \in Handlers : WF_vars(HandlerStep(h))
    /\ \A t \in Ids : WF_vars(TimerFire(t))

\* ------------------------------------------------------------------ claims
\* handler h is suspended inside request op on transfer t
InFlight(h, op, t) ==
    handlers[h].pc # "idle" /\ handlers[h].op = op /\ handlers[h].tid = t

\* this step starts request op on handler h
Starts(h, op) ==
    handlers[h].pc = "idle" /\ handlers'[h] # handlers[h] /\ handlers'[h].op = op

\* this step resumes the suspended coroutine of handler h
Resumes(h) == handlers[h].pc # "idle" /\ handlers'[h] # handlers[h]

\* the phase a reader sees: the terminal (or other) status once one is
\* written, the admission phase before
Stage(r) == IF r.status \in {"none", "initiated", "in_progress"} THEN r.phase ELSE r.status

\* C1: at most one live transfer exists per callId: no two entries of
\* active_transfers carry the same call_id (a second initiate for a call that
\* has a live transfer creates nothing)
C1_OneLiveTransferPerCall ==
    \A t1 \in active, t2 \in active :
        transfers[t1].call_id = transfers[t2].call_id => t1 = t2

\* C2: of a cancel and a complete in flight on the same transfer exactly one
\* takes effect: a step of a complete that finds the transfer already
\* cancelled, or of a cancel that finds it already completed or failed,
\* changes neither the transfer's record, its row, the original room, its
\* credentials nor the Directory counters
C2_LoserIsNoOp ==
    [][\A h \in Handlers :
          LET t == handlers[h].tid IN
          ( /\ Resumes(h)
            /\ \/ handlers[h].op = "complete" /\ transfers[t].status = "cancelled"
               \/ handlers[h].op = "cancel" /\ transfers[t].status \in {"completed", "failed"} )
          => /\ transfers'[t] = transfers[t]
             /\ db'[t] = db[t]
             /\ current_calls' = current_calls
             /\ orig_participants' = orig_participants
             /\ orig_tokens' = orig_tokens]_vars

\* C3: once the timer task of a transfer that is still waiting_for_agents has
\* fired and ended, the transfer is cancelled and no longer in the live set
C3_TimeoutCancels ==
    \A t \in Ids :
        (timer[t] = "fired" /\ transfers[t].phase = "waiting_for_agents")
        => (transfers[t].status = "cancelled" /\ t \notin active)

\* C4: cancel is idempotent once terminal: a cancel_transfer on a transfer that
\* an earlier cancel has cancelled and removed returns normally and changes
\* no state
C4_CancelIdempotent ==
    [][\A h \in Handlers :
          ( /\ Starts(h, "cancel")
            /\ transfers[handlers'[h].tid].status = "cancelled"
            /\ handlers'[h].tid \notin active )
          => /\ handlers'[h].pc = "idle"
             /\ handlers'[h].res = "ok"
             /\ UNCHANGED <<transfers, active, timeouts, timer, db, current_calls>>
             /\ UNCHANGED lkVars]_vars

\* C5: complete_transfer is accepted only in phase briefing: started on a live
\* transfer that is still waiting_for_agents it fails with Conflict and
\* leaves phase, status, participants, timer, rooms and counters unchanged
C5_CompleteOnlyInBriefing ==
    [][\A h \in Handlers :
          ( /\ Starts(h, "complete")
            /\ handlers'[h].tid \in active
            /\ transfers[handlers'[h].tid].phase = "waiting_for_agents" )
          => /\ handlers'[h].pc = "idle"
             /\ handlers'[h].res = "Conflict"
             /\ UNCHANGED <<transfers, active, timeouts, timer, db, current_calls>>
             /\ UNCHANGED lkVars]_vars

\* the edges of the transition table (4.1), and staying put
TableEdge(from, to) ==
    \/ from = to
    \/ from = "none" /\ to = "waiting_for_agents"
    \/ from = "waiting_for_agents" /\ to \in {"briefing", "cancelled"}
    \/ from = "briefing" /\ to \in {"completed", "failed", "cancelled"}

\* C6: every change of a transfer's phase/status follows an edge of the
\* transition table: no value outside the defined phases, no backward move,
\* no move out of a terminal phase, no terminal phase without its predecessor
C6_FollowsTransitionTable ==
    [][\A t \in Ids : TableEdge(Stage(transfers[t]), Stage(transfers'[t]))]_vars

\* C7: state mutation of one transfer is serialized: no two of join, complete
\* and cancel are in progress on the same transfer at the same time
C7_Serialized ==
    \A h1 \in Handlers, h2 \in Handlers :
        ( /\ h1 # h2
          /\ handlers[h1].pc # "idle" /\ handlers[h2].pc # "idle"
          /\ handlers[h1].op \in {"join", "complete", "cancel"}
          /\ handlers[h2].op \in {"join", "complete", "cancel"} )
        => handlers[h1].tid # handlers[h2].tid

\* C8: every live transfer owns exactly one armed timer until its terminal
\* transition: a live transfer without a terminal status, on which no complete
\* or cancel is in progress, has its sleeping timer in transfer_timeouts
C8_LiveTransferHasTimer ==
    \A t \in active :
        ( /\ transfers[t].status \notin TerminalStatus
          /\ \A h \in Handlers : ~InFlight(h, "complete", t) /\ ~InFlight(h, "cancel", t) )
        => (t \in timeouts /\ timer[t] = "sleeping")

\* C9: every transfer that initiate created eventually reaches a terminal
\* phase and leaves the live set, whatever upstream calls fail
C9_EventuallyTerminal ==
    \A t \in Ids :
        (t \in active) ~> (t \notin active /\ transfers[t].status \in TerminalStatus)

\* C10: a transfer that has reached a terminal phase (and whose terminal
\* operation is over) has had a delete of its briefing room issued and is no
\* longer in the live set
C10_TerminalReleased ==
    \A t \in Ids :
        ( /\ transfers[t].status \in TerminalStatus
          /\ \A h \in Handlers : handlers[h].pc = "idle" \/ handlers[h].tid # t )
        => (deleteCalls[t] >= 1 /\ t \notin active)

\* C11: the briefing room is deleted exactly once: over any interleaving of
\* explicit cancel, timeout-driven cancel and complete on one transfer,
\* delete_room is called for its briefing room at most one time
C11_RoomDeletedOnce == \A t \in Ids : deleteCalls[t] <= 1

\* C12: no call is ever silently dropped: in every reachable state the
\* original room of a transfer's call has the source operator attached or
\* the target operator admitted (add_participant_to_room done for it), also
\* while and after a complete(success=true) in which a gateway step fails
C12_CallNeverDropped ==
    \A t \in Ids :
        transfers[t].status # "none"
        => \/ transfers[t].source_agent_id \in orig_participants[transfers[t].call_id]
           \/ transfers[t].target_agent_id \in orig_tokens[transfers[t].call_id]

\* C13: round trip: when, after initiate and the joins of source and target,
\* a complete(success=true) returns successfully, the target holds a
\* credential for the original room and the source is no longer a participant
\* of the original room
C13_RoundTrip ==
    [][\A h \in Handlers :
          LET t == handlers[h].tid
              r == transfers[t]
          IN ( /\ Resumes(h)
               /\ handlers[h].op = "complete" /\ handlers[h].success
               /\ {r.source_agent_id, r.target_agent_id} \subseteq r.participants
               /\ handlers'[h].pc = "idle" /\ handlers'[h].res = "ok" )
             => /\ r.target_agent_id \in orig_tokens'[r.call_id]
                /\ r.source_agent_id \notin orig_participants'[r.call_id]]_vars

InitiateEndpointStatus(res) ==
    IF res = "ok" THEN 200 ELSE IF res = "ValueError" THEN 400 ELSE 500

ValidationErrors ==
    {"call_not_found", "source_not_found", "target_not_found", "not_available", "at_capacity"}

\* C15: a validation failure of initiate reaches the caller as an error of its
\* own kind, distinguishable from an upstream failure: the endpoint answers it
\* as a client validation error (400), not as an internal failure (500)
C15_ValidationErrorKind ==
    \A h \in Handlers :
        ( /\ handlers[h].pc = "idle" /\ handlers[h].op = "initiate"
          /\ handlers[h].err \in ValidationErrors )
        => /\ handlers[h].res = "ValueError"
           /\ InitiateEndpointStatus(handlers[h].res) = 400

\* C16: a failure of the summarizer during initiate is not fatal: initiate
\* goes on past the summarizer whatever it did, and (no gateway or storage
\* call failing) ends successfully with the transfer live in
\* waiting_for_agents, its briefing room created and its timer armed
C16_SummarizerNotFatal ==
    [][\A h \in Handlers :
          LET t == handlers[h].tid IN
          /\ (Resumes(h) /\ handlers[h].pc = "I_summary")
             => handlers'[h].pc = "I_room"
          /\ (Resumes(h) /\ handlers[h].pc = "I_room" /\ faults' = faults)
             => /\ handlers'[h].res = "ok"
                /\ t \in active' /\ transfers'[t].phase = "waiting_for_agents"
                /\ t \in lk_rooms' /\ timer'[t] = "sleeping"]_vars

\* C17: a Room Gateway failure while creating the briefing room aborts
\* initiate: the request fails and afterwards there is, for the id it drew,
\* no briefing room, no live transfer, no row and no timer
C17_RoomFailureAborts ==
    \A h \in Handlers :
        LET t == handlers[h].tid IN
        ( /\ handlers[h].pc = "idle" /\ handlers[h].op = "initiate"
          /\ handlers[h].err = "room" )
        => /\ handlers[h].res = "Exception"
           /\ t \notin lk_rooms /\ t \notin lk_active_rooms /\ lk_status[t] = "none"
           /\ t \notin active /\ transfers[t] = NoTransfer
           /\ db[t] = NoRow
           /\ t \notin timeouts /\ timer[t] = "none"

\* an initiate failed in create_room and further requests ran after it
C17_Witness ==
    \E h \in Handlers :
        /\ handlers[h].pc = "idle" /\ handlers[h].op = "initiate"
        /\ handlers[h].err = "room" /\ handlers[h].tid \in Ids
        /\ opsStarted >= 2

\* C18: a Room Gateway failure during teardown is not fatal: when deleting
\* the briefing room, or removing the source operator, fails during cancel or
\* complete, the operation goes on, the transfer makes its terminal
\* transition in that step, and the operation then returns with the transfer
\* out of the live set
C18_TeardownFailureNotFatal ==
    [][\A h \in Handlers :
          LET t == handlers[h].tid
              r == transfers[t]
          IN
          /\ ( /\ Resumes(h) /\ handlers[h].pc = "C_remove"
               /\ r.source_agent_id \in orig_participants'[r.call_id] )
             => handlers'[h].pc = "C_removed"
          /\ ( /\ Resumes(h) /\ handlers[h].pc = "X_delete"
               /\ t \in lk_rooms /\ t \in lk_rooms' )
             => (transfers'[t].status = "cancelled" /\ handlers'[h].pc = "X_notify")
          /\ ( /\ Resumes(h) /\ handlers[h].pc = "C_delete"
               /\ t \in lk_rooms /\ t \in lk_rooms' )
             => (transfers'[t].status = "completed" /\ handlers'[h].pc = "C_notify")
          /\ ( /\ Resumes(h) /\ handlers[h].pc \in {"X_notify", "C_notify"}
               /\ (handlers[h].op = "cancel" \/ handlers[h].success)
               /\ t \in lk_rooms /\ faults' = faults )
             => (handlers'[h].res = "ok" /\ t \notin active' /\ t \notin timeouts')]_vars

\* a cancel returned normally although the briefing room could not be deleted
C18_Witness ==
    \E h \in Handlers :
        /\ handlers[h].pc = "idle" /\ handlers[h].op = "cancel" /\ handlers[h].res = "ok"
        /\ handlers[h].tid \in lk_rooms /\ handlers[h].tid \notin active
        /\ transfers[handlers[h].tid].status = "cancelled"

\* C19: a durable-storage write failure at a terminal transition does not
\* block it: when the row update inside complete_transfer or cancel_transfer
\* fails, the transfer is still terminal and removed from the live set, its
\* timer disarmed
C19_StorageFailureNotBlocking ==
    [][\A h \in Handlers :
          LET t == handlers'[h].tid IN
          ( /\ handlers'[h] # handlers[h]
            /\ handlers'[h].pc = "idle"
            /\ handlers'[h].op \in {"complete", "cancel"}
            /\ handlers'[h].err = "db" )
          => /\ transfers'[t].status \in TerminalStatus
             /\ t \notin active'
             /\ t \notin timeouts']_vars

\* C20: the participants of a transfer are always a subset of {source,
\* target}: a join_transfer_room by any other operator id never adds an entry
C20_ParticipantsAreParties ==
    \A t \in Ids :
        transfers[t].participants
            \subseteq {transfers[t].source_agent_id, transfers[t].target_agent_id}

\* C21: the transfer enters briefing when both operators are recorded and the
\* context is pushed into the briefing room exactly once at that transition:
\* a transfer in phase briefing (no join on it still in progress) has had
\* its context pushed, and it is never pushed a second time
C21_BriefingHasContext ==
    \A t \in Ids :
        /\ contextSent[t] <= 1
        /\ ( /\ transfers[t].phase = "briefing"
             /\ \A h \in Handlers : ~InFlight(h, "join", t) )
           => contextSent[t] = 1

\* this step belongs to a cancel, or to a complete that reports failure
UnsuccessfulStep(h) ==
    /\ handlers'[h] # handlers[h]
    /\ IF handlers[h].pc = "idle"
       THEN \/ handlers'[h].op = "cancel"
            \/ handlers'[h].op = "complete" /\ ~handlers'[h].success
       ELSE \/ handlers[h].op = "cancel"
            \/ handlers[h].op = "complete" /\ ~handlers[h].success

\* this step is the timer task of some transfer running out
TimeoutStep == timer' # timer /\ handlers' = handlers

\* C22: Directory counters are untouched by unsuccessful outcomes: no step of
\* a complete(success=false), of a cancel or of the timeout changes
\* current_calls of any operator
C22_UnsuccessfulKeepsCounters ==
    [][((\E h \in Handlers : UnsuccessfulStep(h)) \/ TimeoutStep)
          => current_calls' = current_calls]_vars

\* a complete(success=false) ended a transfer whose target's load is unchanged
C22_Witness ==
    \E h \in Handlers :
        /\ handlers[h].pc = "idle" /\ handlers[h].op = "complete" /\ handlers[h].res = "ok"
        /\ transfers[handlers[h].tid].status = "failed"
        /\ current_calls[transfers[handlers[h].tid].target_agent_id] = 0

\* C23: complete(success=false), cancel and timeout leave the original room
\* untouched: no step of theirs changes the participants of any original
\* room or generates a credential for one
C23_UnsuccessfulKeepsOriginalRoom ==
    [][((\E h \in Handlers : UnsuccessfulStep(h)) \/ TimeoutStep)
          => /\ orig_participants' = orig_participants
             /\ orig_tokens' = orig_tokens]_vars

\* a cancel returned and the original room still holds the source operator,
\* with no credential generated for the target
C23_Witness ==
    \E h \in Handlers :
        LET r == transfers[handlers[h].tid] IN
        /\ handlers[h].pc = "idle" /\ handlers[h].op = "cancel" /\ handlers[h].res = "ok"
        /\ r.status = "cancelled"
        /\ r.source_agent_id \in orig_participants[r.call_id]
        /\ r.target_agent_id \notin orig_tokens[r.call_id]

\* C24: Directory counters are changed only by a successful completion and
\* exactly once per transfer: over any complete attempts (a retry after a
\* failed attempt included) and cancels on one transfer the counters are
\* updated at most once, and (once no complete is in progress on it) only if
\* the transfer ended completed
C24_CountersUpdatedOnce ==
    \A t \in Ids :
        /\ agentUpdates[t] <= 1
        /\ ( /\ agentUpdates[t] >= 1
             /\ \A h \in Handlers : ~InFlight(h, "complete", t) )
           => transfers[t].status = "completed"

\* C25: get_transfer_status never fails for a transfer that initiate created:
\* while the transfer is live it answers from the live set, after its removal
\* from the Transfer row; it fails with NotFound only for ids that never
\* existed, and it changes neither the live set nor anything else
C25_StatusNeverFails ==
    [][\A h \in Handlers :
          LET t == handlers'[h].tid IN
          Starts(h, "status")
          => /\ (t \in Ids /\ transfers[t].status # "none")
                => /\ handlers'[h].res = "ok"
                   /\ handlers'[h].reply[1] =
                         IF t \in active THEN transfers[t].status ELSE db[t].status
             /\ handlers'[h].res # "ok"
                => /\ handlers'[h].res = "ValueError"
                   /\ t \notin Ids \/ transfers[t].status = "none"
             /\ UNCHANGED <<nextId, faults, db, current_calls>>
             /\ UNCHANGED svcVars
             /\ UNCHANGED lkVars]_vars

\* a status request was answered from the Transfer row of a removed transfer
C25_Witness ==
    \E h \in Handlers :
        /\ handlers[h].pc = "idle" /\ handlers[h].op = "status" /\ handlers[h].res = "ok"
        /\ handlers[h].tid \in Ids /\ handlers[h].tid \notin active
        /\ handlers[h].reply[1] \in TerminalStatus

\* C26: once a transfer is terminal (and the operation that ended it is over),
\* get_transfer_status reports as its phase the terminal phase it reached:
\* cancelled, failed or completed
C26_StatusReportsTerminalPhase ==
    [][\A h \in Handlers :
          LET t == handlers'[h].tid IN
          ( /\ Starts(h, "status")
            /\ t \in Ids
            /\ transfers[t].status \in TerminalStatus
            /\ \A g \in Handlers : handlers[g].pc = "idle" \/ handlers[g].tid # t )
          => handlers'[h].reply[2] = transfers[t].status]_vars

\* C27: join_transfer_room fails with NotFound, issues no credential and
\* changes no state when the transfer id is unknown or the transfer has
\* reached a terminal phase, also while the terminal operation is finishing
C27_JoinRejectedOnceTerminal ==
    [][\A h \in Handlers :
          LET t == handlers'[h].tid IN
          ( /\ Starts(h, "join")
            /\ t \notin active \/ transfers[t].status \in TerminalStatus )
          => /\ handlers'[h].pc = "idle"
             /\ handlers'[h].res = "ValueError"
             /\ UNCHANGED <<transfers, active, timeouts, timer, db, current_calls>>
             /\ UNCHANGED lkVars]_vars

\* C28: event delivery is best-effort: whatever happens to the notification
\* that complete or cancel awaits, the operation returns normally and the
\* transfer leaves the live set
C28_NotificationBestEffort ==
    [][\A h \in Handlers :
          (Resumes(h) /\ handlers[h].pc \in {"C_notify", "X_notify"})
          => /\ handlers'[h].res = "ok"
             /\ handlers[h].tid \notin active']_vars

\* C29: every terminal transition of a transfer is announced: the step that
\* gives a transfer its terminal status leaves the operation that made it
\* suspended in notify_transfer_status for that transfer
C29_TransitionAnnounced ==
    [][\A t \in Ids :
          ( /\ transfers'[t].status \in TerminalStatus
            /\ transfers'[t].status # transfers[t].status )
          => \E h \in Handlers :
                /\ handlers'[h].tid = t
                /\ handlers'[h].pc \in {"C_notify", "X_notify"}]_vars

\* C30: every live transfer, and every transfer in briefing, holds the
\* summary produced at initiation, and no step replaces or clears the
\* summary of a transfer that stays live
C30_SummaryKept ==
    /\ [](\A t \in Ids :
            (t \in active \/ transfers[t].phase = "briefing")
            => transfers[t].ai_summary = "dict")
    /\ [][\A t \in active \cap active' :
             transfers'[t].ai_summary = transfers[t].ai_summary]_vars

\* a transfer that both agents joined is in briefing, after a cancel attempt
\* on it failed, and still holds its summary
C30_Witness ==
    \E t \in active :
       /\ transfers[t].phase = "briefing"
       /\ transfers[t].ai_summary = "dict"
       /\ \E h \in Handlers :
             /\ handlers[h].tid = t
             /\ handlers[h].op \in {"cancel", "complete"}
             /\ handlers[h].res = "Exception"

\* C31: a target operator's load never exceeds its maximum concurrent
\* sessions: with every transfer's Directory update made at most once,
\* current_calls <= max_concurrent_calls holds for every operator
C31_LoadWithinCapacity ==
    (\A t \in Ids : agentUpdates[t] <= 1)
    => \A a \in KnownAgents : current_calls[a] <= max_concurrent_calls[a]

C33_FailedInitiateLeaksNothing ==
    \A h \in Handlers :
        LET t == handlers[h].tid IN
        ( /\ handlers[h].pc = "idle" /\ handlers[h].op = "initiate"
          /\ handlers[h].res = "Exception" /\ t \in Ids )
        => /\ t \notin lk_rooms
           /\ t \notin lk_active_rooms /\ lk_status[t] = "none"
           /\ t \notin active /\ t \notin timeouts

\* C34: no orphan timer: every id in transfer_timeouts is in
\* active_transfers, and a timer task that is still sleeping belongs to a
\* live transfer, so a timer never outlives its transfer
C34_NoOrphanTimer ==
    \A t \in Ids :
        (t \in timeouts \/ timer[t] = "sleeping") => t \in active

\* one transfer has ended and left the live set with its timer cancelled
\* while another is live with its timer armed
C34_Witness ==
    \E t1 \in Ids, t2 \in Ids :
        /\ t1 \notin active /\ transfers[t1].status \in TerminalStatus
        /\ timer[t1] = "cancelled" /\ t1 \notin timeouts
        /\ t2 \in active /\ t2 \in timeouts /\ timer[t2] = "sleeping"

\* C35: the two state fields of a live transfer stay consistent: status
\* initiated implies phase waiting_for_agents, and status in_progress implies
\* phase briefing with both the source and the target operator in
\* participants
C35_StatusMatchesPhase ==
    \A t \in active :
        /\ transfers[t].status = "initiated"
           => transfers[t].phase = "waiting_for_agents"
        /\ transfers[t].status = "in_progress"
           => /\ transfers[t].phase = "briefing"
              /\ transfers[t].source_agent_id \in transfers[t].participants
              /\ transfers[t].target_agent_id \in transfers[t].participants

\* a live transfer is in progress, entered by the join of its second
\* operator, and a join on it has returned normally
C35_Witness ==
    \E t \in active, h \in Handlers :
        /\ transfers[t].status = "in_progress"
        /\ handlers[h].pc = "idle" /\ handlers[h].op = "join" /\ handlers[h].tid = t
        /\ handlers[h].res = "ok"

\* C36: whenever a transfer has been removed from the live set, its Transfer
\* row carries a terminal status (completed, failed or cancelled), the one
\* the live record had last
C36_RowMatchesRemovedTransfer ==
    \A t \in Ids :
        (transfers[t].status # "none" /\ t \notin active)
        => /\ db[t].status \in TerminalStatus
           /\ db[t].status = transfers[t].status

\* this step changes the live record, the timer or the membership in the
\* live set or the timer map of transfer u
TouchesTransfer(u) ==
    \/ transfers'[u] # transfers[u]
    \/ timer'[u] # timer[u]
    \/ (u \in active') # (u \in active)
    \/ (u \in timeouts') # (u \in timeouts)

\* C37: transfers are independent units: a step of a join, complete, cancel
\* or timeout on one transfer id changes the live record (phase, status,
\* participants, summary) and the timer of no other transfer id
C37_TransfersIndependent ==
    [][/\ \A u1 \in Ids, u2 \in Ids :
             (TouchesTransfer(u1) /\ TouchesTransfer(u2)) => u1 = u2
       /\ \A h \in Handlers, u \in Ids :
             (handlers'[h] # handlers[h] /\ TouchesTransfer(u))
             => u = handlers'[h].tid]_vars

\* a cancel on one transfer has returned while another transfer is live,
\* still waiting with nobody joined and its timer armed
C37_Witness ==
    \E h \in Handlers, u \in active :
        /\ handlers[h].pc = "idle" /\ handlers[h].op = "cancel" /\ handlers[h].res = "ok"
        /\ handlers[h].tid # u /\ handlers[h].tid \notin active
        /\ transfers[u].phase = "waiting_for_agents" /\ transfers[u].status = "initiated"
        /\ transfers[u].participants = {} /\ timer[u] = "sleeping"

\* C38: the staged endpoints advance a Transfer row strictly in the order
\* initiated -> briefing_complete -> completed: complete_briefing succeeds
\* only from initiated and finalize_transfer only from briefing_complete, a
\* row changes only by one of these two moves, call ownership and the load
\* counters change only in the step that moves a row to completed, and a
\* request answered with an error changes none of them
C38_StagedOrder ==
    [][/\ \A t \in Ids :
             db'[t] # db[t]
             => \/ /\ db[t].status = "initiated"
                   /\ db'[t].status = "briefing_complete"
                   /\ staged' = StagedAnswer("complete_briefing", t, 200, "none")
                \/ /\ db[t].status = "briefing_complete"
                   /\ db'[t].status = "completed"
                   /\ staged' = StagedAnswer("finalize", t, 200, "none")
       /\ (staged'.res = 200 /\ staged'.op = "complete_briefing")
             => db[staged'.tid].status = "initiated"
       /\ (staged'.res = 200 /\ staged'.op = "finalize")
             => db[staged'.tid].status = "briefing_complete"
       /\ ( \/ current_calls' # current_calls
            \/ call_owner' # call_owner
            \/ agent_available' # agent_available )
             => \E t \in Ids : /\ db[t].status = "briefing_complete"
                               /\ db'[t].status = "completed"
       /\ staged'.res = 500
             => UNCHANGED <<db, current_calls, call_owner, agent_available>>]_vars

\* a transfer was finalized, its call handed to the target, and a second
\* finalize_transfer for it has been rejected
C38_Witness ==
    \E t \in Ids :
        /\ db[t].status = "completed"
        /\ call_owner[db[t].call_id] = db[t].target_agent_id
        /\ current_calls[db[t].target_agent_id] = 1
        /\ staged = StagedAnswer("finalize", t, 500, "wrong_state")

\* C39: ConnectionManager.disconnect(client_id) removes every trace of the
\* client: when it has returned, client_id is not a key of
\* active_connections, is a member of no room set and of no call set, and no
\* entry of agent_connections maps an agent id to client_id, whatever
\* connect, join_room and register_agent calls came before
C39_DisconnectRemovesEveryTrace ==
    conn_last.op = "disconnect"
        => /\ conn_last.client \notin active_connections
           /\ \A r \in DOMAIN room_connections :
                  conn_last.client \notin room_connections[r]
           /\ \A k \in DOMAIN call_connections :
                  conn_last.client \notin call_connections[k]
           /\ \A i \in 1..Len(agent_connections) :
                  agent_connections[i][2] # conn_last.client

====
